---- MODULE Spec2Model ----
(***************************************************************************)
(* DeePray: deepray/base/base_trainable.py.                                *)
(*                                                                         *)
(* BaseTrainable: construction (__init__), the tf.data input pipeline      *)
(* (tfrecord_pipeline, create_train_data_iterator), train (optimizer,      *)
(* compile, callbacks, fit) and the learning-rate schedule (lr_schedule).  *)
(*                                                                         *)
(* Conventions                                                             *)
(*   - Python's None is the empty tuple <<>>; a value v that may be None   *)
(*     is <<v>>.                                                           *)
(*   - learning rates are integers in units of 1/1000 (0.05 is 50).        *)
(*   - a framework object is the record of the constructor call that made  *)
(*     it: its type and the arguments this code passes.                    *)
(*   - a call that may raise returns [raised |-> exception, value |-> v],  *)
(*     raised = NoError when it returns normally.                          *)
(***************************************************************************)
EXTENDS Integers, Sequences, FiniteSets, TLC

VARIABLES
    FLAGS,      \* absl flag values (module level, lines 34-54)
    cls,        \* the class being instantiated: what it overrides, its MRO
    os,         \* process environment touched by __init__
    pc,         \* "new", "init", "constructed", "train", "fit", "returned", "failed"
    ip,         \* index of the next statement of __init__ / train / fit epoch
    self,       \* the instance's attributes
    model,      \* the keras model handed to train
    locals,     \* train's local variables: optimizer, callbacks, history
    raised,     \* the exception that ended __init__ or train
    trace,      \* the statements executed so far, in order
    call        \* the last direct call of a method and its result

vars == <<FLAGS, cls, os, pc, ip, self, model, locals, raised, trace, call>>

----------------------------------------------------------------------------
(* Bounds of the model *)

\* label cardinalities 0..MaxVoc are tried
MaxVoc == 3
\* the largest value of the epochs flag in the life-cycle specification
MaxEpochs == 2
\* the largest value of the batch_size flag
MaxBatch == 2
\* records in a TFRecord file
MaxRecords == 3
\* the schedule is run and called for epochs up to MaxSchedEpoch
MaxSchedEpoch == 14

----------------------------------------------------------------------------
(* Python values *)

None == <<>>
Some(v) == <<v>>
TheValue(o) == o[1]

\* `if x:` for an Optional[int]
TruthyInt(o) == o # None /\ TheValue(o) # 0
\* `if x:` for an Optional[str]
TruthyStr(o) == o # None /\ TheValue(o) # ""
\* `if x:` for a str
TruthyPlainStr(s) == s # ""

NoError == [type |-> "none", msg |-> <<>>]
Exception(t, m) == [type |-> t, msg |-> m]
Return(v) == [raised |-> NoError, value |-> v]
Raise(e) == [raised |-> e, value |-> None]

\* '--optimizer {} was not found.'.format(name): the pieces of the message
Format_not_found(name) == <<"--optimizer ", name, " was not found.">>

----------------------------------------------------------------------------
(* Module level *)

\* (epoch to start, learning rate) tuples, the rates in 1/1000
LR_SCHEDULE == << <<3, 50>>, <<6, 10>>, <<9, 5>>, <<12, 1>> >>

\* flags.DEFINE_enum("optimizer", ...): the values the flag parser accepts
optimizer_enum == {"adam", "adagrad", "adadelta", "lazyadam", "sgd", "RMSprop", "ftrl"}

\* tf.data.experimental.AUTOTUNE
AUTOTUNE == -1

----------------------------------------------------------------------------
(* BaseTrainable: the methods as functions of what they read *)

\* a base get_summary that returns a default summary
get_summary_default(c) ==
    Return([VOC_SIZE_LABEL |-> IF c.get_summary = "base" THEN 2 ELSE c.voc])

\* get_summary, a classmethod: the base class raises, an override returns
\* (LABEL, CATEGORY_FEATURES, NUMERICAL_FEATURES, VOC_SIZE, VARIABLE_FEATURES),
\* of which VOC_SIZE[LABEL] is kept
get_summary(c) ==
    IF c.get_summary = "base"
    THEN Raise(Exception("NotImplementedError",
                         <<"parser(called by tfrecord_pipeline): not implemented!">>))
    ELSE Return([VOC_SIZE_LABEL |-> c.voc])

\* parser, a classmethod: the base class raises, an override returns the
\* parsed example
parser(c, record) ==
    IF c.parser = "base"
    THEN Raise(Exception("NotImplementedError",
                         <<"parser(called by tfrecord_pipeline): not implemented!">>))
    ELSE Return([example |-> record])

\* "binary" taken as "at least two classes"
build_loss_atleast(voc_size_label) ==
    IF voc_size_label >= 2
    THEN "BinaryCrossentropy"
    ELSE "SparseCategoricalCrossentropy"

build_loss(voc_size_label) ==
    IF voc_size_label = 2
    THEN "BinaryCrossentropy"
    ELSE "SparseCategoricalCrossentropy"

build_metrics(voc_size_label) ==
    IF voc_size_label = 2
    THEN <<"AUC", "BinaryAccuracy">>
    ELSE <<"SparseCategoricalAccuracy">>

Optimizer(type, learning_rate) == [type |-> type, learning_rate |-> learning_rate]

\* the adadelta and adagrad branches exchanged
build_optimizer_swapped(flags) ==
    LET name == flags.optimizer
        optimizer ==
            CASE name = "adam" -> Some("Adam")
              [] name = "adadelta" -> Some("Adagrad")
              [] name = "adagrad" -> Some("Adadelta")
              [] name = "lazyadam" -> Some("LazyAdam")
              [] name = "ftrl" -> Some("Ftrl")
              [] name = "sgd" -> Some("SGD")
              [] name = "RMSprop" -> Some("RMSprop")
              [] OTHER -> None
    IN  IF optimizer = None
        THEN Raise(Exception("ValueError", Format_not_found(name)))
        ELSE Return(Optimizer(TheValue(optimizer), flags.learning_rate))

\* an else branch that falls back to Adam
build_optimizer_fallback(flags) ==
    LET name == flags.optimizer
        optimizer ==
            CASE name = "adam" -> "Adam"
              [] name = "adadelta" -> "Adadelta"
              [] name = "adagrad" -> "Adagrad"
              [] name = "lazyadam" -> "LazyAdam"
              [] name = "ftrl" -> "Ftrl"
              [] name = "sgd" -> "SGD"
              [] name = "RMSprop" -> "RMSprop"
              [] OTHER -> "Adam"
    IN  Return(Optimizer(optimizer, flags.learning_rate))

build_optimizer(flags) ==
    LET name == flags.optimizer
        optimizer ==
            CASE name = "adam" -> Some("Adam")
              [] name = "adadelta" -> Some("Adadelta")
              [] name = "adagrad" -> Some("Adagrad")
              [] name = "lazyadam" -> Some("LazyAdam")
              [] name = "ftrl" -> Some("Ftrl")
              [] name = "sgd" -> Some("SGD")
              [] name = "RMSprop" -> Some("RMSprop")
              [] OTHER -> None
    IN  IF optimizer = None
        THEN Raise(Exception("ValueError", Format_not_found(name)))
        ELSE Return(Optimizer(TheValue(optimizer), flags.learning_rate))

\* the range test with <= for <: the first table epoch counts as out of range
lr_schedule_exclusive(epoch, lr) ==
    IF epoch <= LR_SCHEDULE[1][1] \/ epoch > LR_SCHEDULE[Len(LR_SCHEDULE)][1]
    THEN lr
    ELSE LET hits == {i \in 1..Len(LR_SCHEDULE) : epoch = LR_SCHEDULE[i][1]}
         IN  IF hits = {}
             THEN lr
             ELSE LR_SCHEDULE[CHOOSE i \in hits : \A j \in hits : i <= j][2]

\* a lookup of the most recent table entry
lr_schedule_latest(epoch, lr) ==
    LET hits == {i \in 1..Len(LR_SCHEDULE) : epoch >= LR_SCHEDULE[i][1]}
    IN  IF hits = {}
        THEN lr
        ELSE LR_SCHEDULE[CHOOSE i \in hits : \A j \in hits : i >= j][2]

\* the first table entry whose epoch equals `epoch`, as the for loop finds it
lr_schedule(epoch, lr) ==
    IF epoch < LR_SCHEDULE[1][1] \/ epoch > LR_SCHEDULE[Len(LR_SCHEDULE)][1]
    THEN lr
    ELSE LET hits == {i \in 1..Len(LR_SCHEDULE) : epoch = LR_SCHEDULE[i][1]}
         IN  IF hits = {}
             THEN lr
             ELSE LR_SCHEDULE[CHOOSE i \in hits : \A j \in hits : i <= j][2]

----------------------------------------------------------------------------
(* The input pipeline *)

\* one tf.data transformation: its operator, the function it applies (map)
\* and its numeric argument
Op(op, fn, n) == [op |-> op, fn |-> fn, n |-> n]

\* the shuffle chained after the batch
tfrecord_pipeline_batch_first(c, flags, tfrecord_files, batch_size, epochs, shuffle) ==
    LET source == [files |-> <<tfrecord_files>>,
                   compression_type |-> IF flags.gzip THEN Some("GZIP") ELSE None]
        map == Op("map", c.parser,
                  IF flags.parallel_parse = None THEN AUTOTUNE
                  ELSE TheValue(flags.parallel_parse))
        ops == <<map, Op("batch", "", batch_size)>>
                 \o (IF shuffle THEN <<Op("shuffle", "", flags.shuffle_buffer)>> ELSE <<>>)
                 \o <<Op("repeat", "", epochs), Op("prefetch", "", flags.prefetch_buffer)>>
    IN  IF parser(c, 0).raised # NoError
        THEN Raise(parser(c, 0).raised)
        ELSE Return([source |-> source, ops |-> ops])

\* tfrecord_pipeline, a classmethod. dataset.map traces cls.parser on a
\* symbolic record when the dataset is built, so the base parser raises here.
tfrecord_pipeline(c, flags, tfrecord_files, batch_size, epochs, shuffle) ==
    LET source == [files |-> <<tfrecord_files>>,
                   compression_type |-> IF flags.gzip THEN Some("GZIP") ELSE None]
        map == Op("map", c.parser,
                  IF flags.parallel_parse = None THEN AUTOTUNE
                  ELSE TheValue(flags.parallel_parse))
        shuffled == IF shuffle
                    THEN <<map, Op("shuffle", "", flags.shuffle_buffer)>>
                    ELSE <<map>>
        ops == shuffled \o <<Op("repeat", "", epochs),
                             Op("batch", "", batch_size),
                             Op("prefetch", "", flags.prefetch_buffer)>>
    IN  IF parser(c, 0).raised # NoError
        THEN Raise(parser(c, 0).raised)
        ELSE Return([source |-> source, ops |-> ops])

\* the epochs flag passed on as the repeat count
create_train_data_iterator_epochs(c, flags) ==
    LET train == tfrecord_pipeline(c, flags, flags.train_data, flags.batch_size,
                                   flags.epochs, TRUE)
        valid == tfrecord_pipeline(c, flags, flags.valid_data, flags.batch_size,
                                   flags.epochs, FALSE)
    IN  IF train.raised # NoError
        THEN [raised |-> train.raised, train_iterator |-> None, valid_iterator |-> None]
        ELSE IF valid.raised # NoError
        THEN [raised |-> valid.raised, train_iterator |-> Some(train.value),
              valid_iterator |-> None]
        ELSE [raised |-> NoError, train_iterator |-> Some(train.value),
              valid_iterator |-> Some(valid.value)]

\* create_train_data_iterator: the two attributes it sets (None when the
\* statement that sets it was not reached)
create_train_data_iterator(c, flags) ==
    LET train == tfrecord_pipeline(c, flags, flags.train_data, flags.batch_size, 1, TRUE)
        valid == tfrecord_pipeline(c, flags, flags.valid_data, flags.batch_size, 1, FALSE)
    IN  IF train.raised # NoError
        THEN [raised |-> train.raised, train_iterator |-> None, valid_iterator |-> None]
        ELSE IF valid.raised # NoError
        THEN [raised |-> valid.raised, train_iterator |-> Some(train.value),
              valid_iterator |-> None]
        ELSE [raised |-> NoError, train_iterator |-> Some(train.value),
              valid_iterator |-> Some(valid.value)]

----------------------------------------------------------------------------
(* train: the callbacks *)

Callback(type, path, profile_batch, patience, schedule) ==
    [type |-> type, path |-> path, profile_batch |-> profile_batch,
     patience |-> patience, schedule |-> schedule]

\* early stopping tested with `is not None`
train_callbacks_not_none(flags) ==
    LET base == <<Callback("TensorBoard", <<flags.summaries_dir>>, None, None, ""),
                  Callback("CSVLogger", <<flags.summaries_dir, "/log.csv">>, None, None, ""),
                  Callback("LossAndErrorPrintingCallback", <<>>, None, None, "")>>
        tb_callback ==
            IF TruthyStr(flags.profile_batch)
            THEN <<Callback("TensorBoard", <<flags.summaries_dir>>,
                            flags.profile_batch, None, "")>>
            ELSE <<>>
        EarlyStopping ==
            IF flags.patient_valid_passes # None
            THEN <<Callback("EarlyStopping", <<>>, None, flags.patient_valid_passes, "")>>
            ELSE <<>>
        cp_callback ==
            IF TruthyPlainStr(flags.checkpoint_path)
            THEN <<Callback("ModelCheckpoint", <<flags.checkpoint_path>>, None, None, "")>>
            ELSE <<>>
        scheduler ==
            IF flags.lr_schedule
            THEN <<Callback("LearningRateScheduler", <<>>, None, None, "lr_schedule")>>
            ELSE <<>>
    IN  base \o tb_callback \o EarlyStopping \o cp_callback \o scheduler

\* lines 148-172 of train
train_callbacks(flags) ==
    LET base == <<Callback("TensorBoard", <<flags.summaries_dir>>, None, None, ""),
                  Callback("CSVLogger", <<flags.summaries_dir, "/log.csv">>, None, None, ""),
                  Callback("LossAndErrorPrintingCallback", <<>>, None, None, "")>>
        tb_callback ==
            IF TruthyStr(flags.profile_batch)
            THEN <<Callback("TensorBoard", <<flags.summaries_dir>>,
                            flags.profile_batch, None, "")>>
            ELSE <<>>
        EarlyStopping ==
            IF TruthyInt(flags.patient_valid_passes)
            THEN <<Callback("EarlyStopping", <<>>, None, flags.patient_valid_passes, "")>>
            ELSE <<>>
        cp_callback ==
            IF TruthyPlainStr(flags.checkpoint_path)
            THEN <<Callback("ModelCheckpoint", <<flags.checkpoint_path>>, None, None, "")>>
            ELSE <<>>
        scheduler ==
            IF flags.lr_schedule
            THEN <<Callback("LearningRateScheduler", <<>>, None, None, "lr_schedule")>>
            ELSE <<>>
    IN  base \o tb_callback \o EarlyStopping \o cp_callback \o scheduler

\* the arguments of model.fit, lines 173-174
fit_arguments(obj, flags, callbacks) ==
    [x |-> obj.train_iterator, validation_data |-> obj.valid_iterator,
     epochs |-> flags.epochs, callbacks |-> callbacks]

\* the arguments of model.compile, lines 145-147
compile_arguments(obj, optimizer) ==
    [optimizer |-> optimizer, loss |-> obj.loss_object, metrics |-> obj.metrics_object]

----------------------------------------------------------------------------
(* tf.data: what a dataset yields when it is iterated *)

\* the serialized records of a file, in file order
Records(path) ==
    IF path = "train.tfrecord"
    THEN [i \in 1..MaxRecords |-> i]
    ELSE [i \in 1..MaxRecords |-> MaxRecords + i]

\* shuffle(buffer_size): the element at output position i was among the
\* first i + buffer_size - 1 of the input
Shuffles(s, buffer_size) ==
    LET n == Len(s)
        perms == {q \in [1..n -> 1..n] :
                    /\ \A i, j \in 1..n : i # j => q[i] # q[j]
                    /\ \A i \in 1..n : q[i] <= i + buffer_size - 1}
    IN  {[i \in 1..n |-> s[q[i]]] : q \in perms}

\* repeat(count): count passes over the input, each drawn afresh
RECURSIVE Repeats(_, _)
Repeats(S, count) ==
    IF count <= 0
    THEN {<<>>}
    ELSE {a \o b : a \in S, b \in Repeats(S, count - 1)}

\* batch(batch_size): consecutive elements grouped, the last batch may be short
Batches(s, batch_size) ==
    LET n == (Len(s) + batch_size - 1) \div batch_size
    IN  [k \in 1..n |->
            SubSeq(s, (k - 1) * batch_size + 1,
                   IF k * batch_size < Len(s) THEN k * batch_size ELSE Len(s))]

ApplyOp(o, S) ==
    CASE o.op = "map" -> {[i \in DOMAIN s |-> parser([parser |-> o.fn], s[i]).value] : s \in S}
      [] o.op = "shuffle" -> UNION {Shuffles(s, o.n) : s \in S}
      [] o.op = "repeat" -> Repeats(S, o.n)
      [] o.op = "batch" -> {Batches(s, o.n) : s \in S}
      [] o.op = "prefetch" -> S

RECURSIVE ApplyOps(_, _, _)
ApplyOps(ops, k, S) ==
    IF k > Len(ops) THEN S ELSE ApplyOps(ops, k + 1, ApplyOp(ops[k], S))

\* every sequence of elements one iteration over the dataset may yield
Elements(dataset) ==
    ApplyOps(dataset.ops, 1, {Records(dataset.source.files[1])})

----------------------------------------------------------------------------
(* The statements of __init__ and of train, in program order *)

init_body ==
    <<"super().__init__", "seed_everything", "makedirs", "use_absl_log_file",
      "attributes", "get_summary", "build_metrics", "build_loss">>

\* fit called before compile
train_body_fit_first ==
    <<"create_train_data_iterator", "build_optimizer", "callbacks", "fit",
      "compile", "return">>

train_body ==
    <<"create_train_data_iterator", "build_optimizer", "compile", "callbacks",
      "fit", "return">>

At(frame, body, stmt) == pc = frame /\ ip \in DOMAIN body /\ body[ip] = stmt

\* fall through to the next statement, or leave the method
Goto(body, done) ==
    /\ pc' = IF ip < Len(body) THEN pc ELSE done
    /\ ip' = IF ip < Len(body) THEN ip + 1 ELSE 1
    /\ raised' = raised

\* an exception leaves the method: nothing after it runs
Fail(e) ==
    /\ pc' = "failed"
    /\ ip' = ip
    /\ raised' = e

Did(stmt) == trace' = Append(trace, stmt)

----------------------------------------------------------------------------
(* BaseTrainable.__init__ *)

\* line 64: with BaseTrainable(object), the next class of the instance's MRO
\* is either a class whose __init__ takes the flags, or object, whose
\* __init__ refuses any argument
SuperInit ==
    /\ At("init", init_body, "super().__init__")
    /\ Did("super().__init__")
    /\ IF cls.mro_next = "object"
       THEN Fail(Exception("TypeError", <<"object.__init__() takes exactly one argument">>))
       ELSE Goto(init_body, "constructed")
    /\ UNCHANGED <<FLAGS, cls, os, self, model, locals, call>>

\* lines 65, 87-90
SeedEverything ==
    /\ At("init", init_body, "seed_everything")
    /\ Did("seed_everything")
    /\ os' = [os EXCEPT !.tf_seed = Some(10), !.PYTHONHASHSEED = Some("10")]
    /\ Goto(init_body, "constructed")
    /\ UNCHANGED <<FLAGS, cls, self, model, locals, call>>

\* lines 66-67: os.makedirs creates the directory or raises OSError
MakeDirs ==
    /\ At("init", init_body, "makedirs")
    /\ Did("makedirs")
    /\ IF FLAGS.summaries_dir \in os.dirs
       THEN os' = os /\ Goto(init_body, "constructed")
       ELSE \/ /\ os' = [os EXCEPT !.dirs = @ \cup {FLAGS.summaries_dir}]
               /\ Goto(init_body, "constructed")
            \/ /\ os' = os
               /\ Fail(Exception("OSError", <<FLAGS.summaries_dir>>))
    /\ UNCHANGED <<FLAGS, cls, self, model, locals, call>>

\* lines 68-73
UseAbslLogFile ==
    /\ At("init", init_body, "use_absl_log_file")
    /\ Did("use_absl_log_file")
    /\ os' = [os EXCEPT !.log_dir = Some(FLAGS.summaries_dir)]
    /\ Goto(init_body, "constructed")
    /\ UNCHANGED <<FLAGS, cls, self, model, locals, call>>

\* lines 75-81
SetAttributes ==
    /\ At("init", init_body, "attributes")
    /\ Did("attributes")
    /\ self' = [self EXCEPT !.flags = Some(FLAGS),
                            !.batch_size = Some(FLAGS.batch_size),
                            !.max_patient_passes = Some(FLAGS.patient_valid_passes)]
    /\ Goto(init_body, "constructed")
    /\ UNCHANGED <<FLAGS, cls, os, model, locals, call>>

\* lines 82-83
GetSummary ==
    /\ At("init", init_body, "get_summary")
    /\ Did("get_summary")
    /\ LET r == get_summary(cls)
       IN  IF r.raised # NoError
           THEN self' = self /\ Fail(r.raised)
           ELSE /\ self' = [self EXCEPT !.summary = Some(r.value)]
                /\ Goto(init_body, "constructed")
    /\ UNCHANGED <<FLAGS, cls, os, model, locals, call>>

\* line 84; self.VOC_SIZE is an attribute get_summary's result sets
BuildMetrics ==
    /\ At("init", init_body, "build_metrics")
    /\ Did("build_metrics")
    /\ IF self.summary = None
       THEN self' = self /\ Fail(Exception("AttributeError", <<"VOC_SIZE">>))
       ELSE /\ self' = [self EXCEPT !.metrics_object =
                            Some(build_metrics(TheValue(self.summary).VOC_SIZE_LABEL))]
            /\ Goto(init_body, "constructed")
    /\ UNCHANGED <<FLAGS, cls, os, model, locals, call>>

\* line 85
BuildLoss ==
    /\ At("init", init_body, "build_loss")
    /\ Did("build_loss")
    /\ IF self.summary = None
       THEN self' = self /\ Fail(Exception("AttributeError", <<"VOC_SIZE">>))
       ELSE /\ self' = [self EXCEPT !.loss_object =
                            Some(build_loss(TheValue(self.summary).VOC_SIZE_LABEL))]
            /\ Goto(init_body, "constructed")
    /\ UNCHANGED <<FLAGS, cls, os, model, locals, call>>

----------------------------------------------------------------------------
(* BaseTrainable.train *)

\* a caller invokes train(model) on the constructed instance
CallTrain ==
    /\ pc = "constructed"
    /\ pc' = "train"
    /\ ip' = 1
    /\ Did("train")
    /\ UNCHANGED <<FLAGS, cls, os, self, model, locals, raised, call>>

\* line 143
CreateTrainDataIterator ==
    /\ At("train", train_body, "create_train_data_iterator")
    /\ Did("create_train_data_iterator")
    /\ LET r == create_train_data_iterator(cls, TheValue(self.flags))
       IN  /\ self' = [self EXCEPT
                         !.train_iterator =
                             IF r.train_iterator = None THEN @ ELSE r.train_iterator,
                         !.valid_iterator =
                             IF r.valid_iterator = None THEN @ ELSE r.valid_iterator]
           /\ IF r.raised # NoError THEN Fail(r.raised) ELSE Goto(train_body, "returned")
    /\ UNCHANGED <<FLAGS, cls, os, model, locals, call>>

\* line 144
BuildOptimizer ==
    /\ At("train", train_body, "build_optimizer")
    /\ Did("build_optimizer")
    /\ LET r == build_optimizer(TheValue(self.flags))
       IN  IF r.raised # NoError
           THEN locals' = locals /\ Fail(r.raised)
           ELSE /\ locals' = [locals EXCEPT !.optimizer = Some(r.value)]
                /\ Goto(train_body, "returned")
    /\ UNCHANGED <<FLAGS, cls, os, self, model, call>>

\* lines 145-147; `optimizer` is unbound when no statement assigned it
Compile ==
    /\ At("train", train_body, "compile")
    /\ Did("compile")
    /\ IF locals.optimizer = None
       THEN model' = model /\ Fail(Exception("UnboundLocalError", <<"optimizer">>))
       ELSE /\ model' = [model EXCEPT
                           !.compiled = Some(compile_arguments(self, TheValue(locals.optimizer))),
                           !.lr = Some(TheValue(locals.optimizer).learning_rate)]
            /\ Goto(train_body, "returned")
    /\ UNCHANGED <<FLAGS, cls, os, self, locals, call>>

\* lines 148-172
AssembleCallbacks ==
    /\ At("train", train_body, "callbacks")
    /\ Did("callbacks")
    /\ locals' = [locals EXCEPT !.callbacks = Some(train_callbacks(TheValue(self.flags)))]
    /\ Goto(train_body, "returned")
    /\ UNCHANGED <<FLAGS, cls, os, self, model, call>>

\* lines 173-174: the call of model.fit. Keras refuses to fit a model that
\* was not compiled.
Fit ==
    /\ At("train", train_body, "fit")
    /\ Did("fit")
    /\ IF locals.callbacks = None
       THEN model' = model /\ Fail(Exception("UnboundLocalError", <<"callbacks">>))
       ELSE /\ model' = [model EXCEPT
                           !.fit_calls = Append(@,
                               [arguments |-> fit_arguments(self, TheValue(self.flags),
                                                            TheValue(locals.callbacks)),
                                compiled |-> model.compiled # None]),
                           !.epoch = 0]
            /\ IF model.compiled = None
               THEN Fail(Exception("RuntimeError", <<"You must compile your model">>))
               ELSE pc' = "fit" /\ ip' = ip /\ raised' = raised
    /\ UNCHANGED <<FLAGS, cls, os, self, locals, call>>

----------------------------------------------------------------------------
(* model.fit: the framework's epoch loop, as far as this code drives it *)

HasCallback(callbacks, type) == \E i \in DOMAIN callbacks : callbacks[i].type = type

\* deepray.base.callbacks.LearningRateScheduler.on_epoch_begin: the optimizer's
\* current rate goes through the schedule function and the result is set
LearningRateScheduler_on_epoch_begin(callbacks, epoch, lr) ==
    IF HasCallback(callbacks, "LearningRateScheduler")
    THEN lr_schedule(epoch, lr)
    ELSE lr

TheFitCall == model.fit_calls[Len(model.fit_calls)].arguments

\* one epoch: the callbacks' on_epoch_begin, one iteration over the training
\* dataset, one over the validation dataset
FitEpoch ==
    /\ pc = "fit"
    /\ model.epoch < TheFitCall.epochs
    /\ LET lr == LearningRateScheduler_on_epoch_begin(
                     TheFitCall.callbacks, model.epoch, TheValue(model.lr))
       IN  \E tr \in Elements(TheValue(TheFitCall.x)),
              va \in Elements(TheValue(TheFitCall.validation_data)) :
               model' = [model EXCEPT !.lr = Some(lr),
                                      !.lr_log = Append(@, lr),
                                      !.seen = Some([train |-> tr, valid |-> va]),
                                      !.epoch = @ + 1]
    /\ UNCHANGED <<FLAGS, cls, os, pc, ip, self, locals, raised, trace, call>>

\* fit returns its History after the last epoch, or sooner when the early
\* stopping callback stops it (never before `patience` epochs have run)
FitReturn ==
    /\ pc = "fit"
    /\ \/ model.epoch = TheFitCall.epochs
       \/ \E i \in DOMAIN TheFitCall.callbacks :
             /\ TheFitCall.callbacks[i].type = "EarlyStopping"
             /\ model.epoch > TheValue(TheFitCall.callbacks[i].patience)
    /\ locals' = [locals EXCEPT !.history = Some([epochs_run |-> model.epoch])]
    /\ pc' = "train"
    /\ ip' = ip + 1
    /\ UNCHANGED <<FLAGS, cls, os, self, model, raised, trace, call>>

\* line 175
TrainReturn ==
    /\ At("train", train_body, "return")
    /\ Did("return")
    /\ locals' = [locals EXCEPT !.returned = locals.history]
    /\ Goto(train_body, "returned")
    /\ UNCHANGED <<FLAGS, cls, os, self, model, call>>

----------------------------------------------------------------------------
(* Direct calls of the public methods on a constructed instance *)

\* learning rates tried, in 1/1000
Rates == {1, 5, 10, 50, 100}

CallLrSchedule ==
    /\ pc = "constructed"
    /\ \E epoch \in -1..MaxSchedEpoch, lr \in Rates :
          call' = Some([method |-> "lr_schedule", epoch |-> epoch, lr |-> lr,
                        ret |-> lr_schedule(epoch, lr)])
    /\ pc' = "called"
    /\ UNCHANGED <<FLAGS, cls, os, ip, self, model, locals, raised, trace>>

\* tfrecord_pipeline(files, batch_size, epochs, shuffle), then one iteration
\* over the dataset it returned
CallTfrecordPipeline ==
    /\ pc = "constructed"
    /\ \E files \in {"train.tfrecord", "valid.tfrecord"}, batch_size \in 1..MaxBatch,
          epochs \in 0..MaxEpochs, shuffle \in BOOLEAN :
          LET r == tfrecord_pipeline(cls, FLAGS, files, batch_size, epochs, shuffle)
          IN  \E seen \in IF r.raised = NoError THEN Elements(r.value) ELSE {<<>>} :
                 call' = Some([method |-> "tfrecord_pipeline", files |-> files,
                               batch_size |-> batch_size, epochs |-> epochs,
                               shuffle |-> shuffle, ret |-> r, seen |-> seen])
    /\ pc' = "called"
    /\ UNCHANGED <<FLAGS, cls, os, ip, self, model, locals, raised, trace>>

----------------------------------------------------------------------------
(* Initial states *)

\* names given to the optimizer flag: the seven of the enum and three others
OptimizerNames == optimizer_enum \cup {"rmsprop", "Adam", "momentum"}

\* the flags this file defines, at their default values (lines 36-54), the
\* two data files named; learning_rate, which build_optimizer reads, is
\* defined by another module of the repository
DefaultFlags ==
    [gzip |-> FALSE,
     lr_schedule |-> FALSE,
     optimizer |-> "lazyadam",
     patient_valid_passes |-> None,
     profile_batch |-> None,
     checkpoint_path |-> "summaries/cpk/",
     summaries_dir |-> "summaries",
     train_data |-> "train.tfrecord",
     valid_data |-> "valid.tfrecord",
     batch_size |-> 1,
     epochs |-> 1,
     parallel_parse |-> Some(8),
     shuffle_buffer |-> 512,
     prefetch_buffer |-> 4096,
     learning_rate |-> 1]

\* every optimizer name with each learning rate, batch size and epoch count
OptimizerFlagValues ==
    {[DefaultFlags EXCEPT !.optimizer = o, !.learning_rate = r,
                          !.batch_size = b, !.epochs = e] :
        o \in OptimizerNames, r \in {1, 100}, b \in 1..MaxBatch, e \in 1..MaxEpochs}

\* every combination of the flags that select callbacks, with each epoch count
CallbackFlagValues ==
    {[DefaultFlags EXCEPT !.lr_schedule = s, !.patient_valid_passes = p,
                          !.profile_batch = q, !.checkpoint_path = c, !.epochs = e] :
        s \in BOOLEAN, p \in {None, Some(0), Some(1)},
        q \in {None, Some(""), Some("2,5")}, c \in {"", "summaries/cpk/"},
        e \in 1..MaxEpochs}

FlagValues == OptimizerFlagValues \cup CallbackFlagValues

\* the classes instantiated: BaseTrainable itself, and subclasses that
\* override get_summary and parser or leave them
Classes(cardinalities) ==
    [get_summary : {"base", "override"},
     parser : {"base", "override"},
     mro_next : {"object", "Model"},
     voc : cardinalities]

InitCommon ==
    /\ os = [PYTHONHASHSEED |-> None, tf_seed |-> None, dirs |-> {}, log_dir |-> None]
    /\ pc = "init"
    /\ ip = 1
    /\ self = [flags |-> None, batch_size |-> None, max_patient_passes |-> None,
               summary |-> None, metrics_object |-> None, loss_object |-> None,
               train_iterator |-> None, valid_iterator |-> None]
    /\ model = [compiled |-> None, fit_calls |-> <<>>, epoch |-> 0, lr |-> None,
                lr_log |-> <<>>, seen |-> None]
    /\ locals = [optimizer |-> None, callbacks |-> None, history |-> None,
                 returned |-> None]
    /\ raised = NoError
    /\ trace = <<>>
    /\ call = None

Init ==
    /\ FLAGS \in FlagValues
    /\ cls \in Classes({2, 3})
    /\ InitCommon

Construct ==
    \/ SuperInit
    \/ SeedEverything
    \/ MakeDirs
    \/ UseAbslLogFile
    \/ SetAttributes
    \/ GetSummary
    \/ BuildMetrics
    \/ BuildLoss

Train ==
    \/ CallTrain
    \/ CreateTrainDataIterator
    \/ BuildOptimizer
    \/ Compile
    \/ AssembleCallbacks
    \/ Fit
    \/ FitEpoch
    \/ FitReturn
    \/ TrainReturn

Next == Construct \/ Train

Spec == Init /\ [][Next]_vars

----------------------------------------------------------------------------
(* Direct calls: the flags at their defaults but for the initial rate and    *)
(* the scheduler, or for the tuning flags                                    *)

\* a long run, with and without the scheduler, from each initial rate
ScheduleFlagValues ==
    {[DefaultFlags EXCEPT !.lr_schedule = b, !.learning_rate = r, !.epochs = MaxSchedEpoch] :
        b \in BOOLEAN, r \in Rates}

\* the flags the pipeline passes through
TuningFlagValues ==
    {[DefaultFlags EXCEPT !.gzip = g, !.parallel_parse = p, !.shuffle_buffer = n] :
        g \in BOOLEAN, p \in {None, Some(8)}, n \in {2, 512}}

CallClasses ==
    [get_summary : {"override"},
     parser : {"base", "override"},
     mro_next : {"Model"},
     voc : {2}]

\* lr_schedule called directly, and run by fit
InitSchedule ==
    /\ FLAGS \in ScheduleFlagValues
    /\ cls \in CallClasses
    /\ InitCommon

NextSchedule == Next \/ CallLrSchedule

SpecSchedule == InitSchedule /\ [][NextSchedule]_vars

\* tfrecord_pipeline called directly, and by train
InitPipeline ==
    /\ FLAGS \in TuningFlagValues
    /\ cls \in CallClasses
    /\ InitCommon

NextPipeline == Next \/ CallTfrecordPipeline

SpecPipeline == InitPipeline /\ [][NextPipeline]_vars

\* Construction over every label cardinality, the flags at their defaults
InitLabels ==
    /\ FLAGS = DefaultFlags
    /\ cls \in Classes(0..MaxVoc)
    /\ InitCommon

SpecLabels == InitLabels /\ [][Next]_vars

----------------------------------------------------------------------------
(* Properties *)

Done(stmt) == \E i \in DOMAIN trace : trace[i] = stmt

OpNames(dataset) == [i \in DOMAIN dataset.ops |-> dataset.ops[i].op]

Types(cbs) == [i \in DOMAIN cbs |-> cbs[i].type]

Position(names, name) == CHOOSE i \in DOMAIN names : names[i] = name

IsPrefix(s, t) == Len(s) <= Len(t) /\ \A i \in DOMAIN s : s[i] = t[i]

\* t holds the elements of s, each as often as s does
IsPermutation(s, t) ==
    /\ Len(s) = Len(t)
    /\ \A i \in DOMAIN s :
          Cardinality({j \in DOMAIN s : s[j] = s[i]})
              = Cardinality({j \in DOMAIN t : t[j] = s[i]})

Parsed(records) == [i \in DOMAIN records |-> [example |-> records[i]]]

\* the elements of the batches, in the order they were yielded
RECURSIVE Flatten(_)
Flatten(batches) ==
    IF batches = <<>> THEN <<>> ELSE Head(batches) \o Flatten(Tail(batches))

\* n passes over s, in order
RECURSIVE Passes(_, _)
Passes(s, n) == IF n <= 0 THEN <<>> ELSE s \o Passes(s, n - 1)

\* C1: with the optimizer flag one of the seven names, build_optimizer
\* returns the optimizer type of that name (adam->Adam, adagrad->Adagrad,
\* adadelta->Adadelta, lazyadam->LazyAdam, sgd->SGD, RMSprop->RMSprop,
\* ftrl->Ftrl) built with the learning_rate flag, never raises, and no other
\* name of the seven gives the same type.
C1_NamedOptimizer ==
    LET named(n) ==
            CASE n = "adam" -> "Adam"
              [] n = "adagrad" -> "Adagrad"
              [] n = "adadelta" -> "Adadelta"
              [] n = "lazyadam" -> "LazyAdam"
              [] n = "sgd" -> "SGD"
              [] n = "RMSprop" -> "RMSprop"
              [] n = "ftrl" -> "Ftrl"
    IN  (Done("build_optimizer") /\ FLAGS.optimizer \in optimizer_enum) =>
            /\ raised = NoError
            /\ locals.optimizer =
                   Some([type |-> named(FLAGS.optimizer),
                         learning_rate |-> FLAGS.learning_rate])
            /\ \A n \in optimizer_enum \ {FLAGS.optimizer} :
                  LET r == build_optimizer([FLAGS EXCEPT !.optimizer = n])
                  IN  /\ r.raised = NoError
                      /\ r.value.type = named(n)
                      /\ r.value.type # TheValue(locals.optimizer).type

C1_Witness ==
    /\ Done("build_optimizer")
    /\ FLAGS.optimizer = "RMSprop"
    /\ FLAGS.learning_rate = 100
    /\ locals.optimizer = Some([type |-> "RMSprop", learning_rate |-> 100])

\* C2: with the optimizer flag not exactly one of the seven names,
\* build_optimizer raises ValueError with the name in its message and builds
\* no optimizer; in train the model is then never compiled and fit is never
\* called.
C2_UnknownOptimizer ==
    FLAGS.optimizer \notin optimizer_enum =>
        /\ model.compiled = None
        /\ model.fit_calls = <<>>
        /\ locals.optimizer = None
        /\ ~Done("compile")
        /\ ~Done("fit")
        /\ Done("build_optimizer") =>
              /\ pc = "failed"
              /\ raised.type = "ValueError"
              /\ \E i \in DOMAIN raised.msg : raised.msg[i] = FLAGS.optimizer

C2_Witness ==
    /\ FLAGS.optimizer = "rmsprop"
    /\ Done("build_optimizer")
    /\ raised.type = "ValueError"
    /\ model.compiled = None

\* C3: lr_schedule(epoch, lr) is 0.05 at epoch 3, 0.01 at 6, 0.005 at 9 and
\* 0.001 at 12 whatever lr is, and is lr at every epoch below 3 or above 12.
C3_TableRates ==
    (call # None /\ TheValue(call).method = "lr_schedule") =>
        LET c == TheValue(call)
        IN  /\ c.epoch = 3 => c.ret = 50
            /\ c.epoch = 6 => c.ret = 10
            /\ c.epoch = 9 => c.ret = 5
            /\ c.epoch = 12 => c.ret = 1
            /\ (c.epoch < 3 \/ c.epoch > 12) => c.ret = c.lr

C3_Witness ==
    /\ call # None
    /\ TheValue(call).method = "lr_schedule"
    /\ TheValue(call).epoch = 6
    /\ TheValue(call).lr = 100
    /\ TheValue(call).ret = 10

\* C4: build_loss and build_metrics take the same branch, chosen by whether
\* VOC_SIZE[LABEL] is two: BinaryCrossentropy with [AUC, BinaryAccuracy] when
\* it is, SparseCategoricalCrossentropy with [SparseCategoricalAccuracy] for
\* every other cardinality.
C4_BinaryBranch ==
    /\ self.metrics_object # None =>
          self.metrics_object =
              IF cls.voc = 2
              THEN Some(<<"AUC", "BinaryAccuracy">>)
              ELSE Some(<<"SparseCategoricalAccuracy">>)
    /\ self.loss_object # None =>
          /\ self.loss_object =
                 IF cls.voc = 2
                 THEN Some("BinaryCrossentropy")
                 ELSE Some("SparseCategoricalCrossentropy")
          /\ (self.loss_object = Some("BinaryCrossentropy"))
                 <=> (self.metrics_object = Some(<<"AUC", "BinaryAccuracy">>))

C4_Witness ==
    /\ pc = "constructed"
    /\ cls.voc = 1
    /\ self.loss_object = Some("SparseCategoricalCrossentropy")
    /\ self.metrics_object = Some(<<"SparseCategoricalAccuracy">>)

\* C5 as first stated: a class that does not override get_summary fails to
\* construct with NotImplementedError.
C5_FailsNotImplemented ==
    (cls.get_summary = "base" /\ pc = "failed") => raised.type = "NotImplementedError"

\* C5: get_summary and parser of the base class always raise
\* NotImplementedError. Constructing a class that does not override
\* get_summary never completes and never runs build_metrics or build_loss
\* (metrics_object and loss_object stay unset): it fails with
\* NotImplementedError at get_summary when __init__ gets that far, and sooner
\* with TypeError from super().__init__(flags) when object is next in the MRO,
\* or with OSError when the summaries directory cannot be made. A pipeline
\* built on a class that does not override parser yields no parsed record.
C5_Stubs ==
    /\ cls.get_summary = "base" =>
          /\ pc \in {"init", "failed"}
          /\ self.metrics_object = None
          /\ self.loss_object = None
          /\ ~Done("build_metrics")
          /\ ~Done("build_loss")
          /\ Done("get_summary") => (pc = "failed" /\ raised.type = "NotImplementedError")
          /\ pc = "failed" =>
                raised.type =
                    IF cls.mro_next = "object" THEN "TypeError"
                    ELSE IF FLAGS.summaries_dir \notin os.dirs THEN "OSError"
                    ELSE "NotImplementedError"
    /\ cls.parser = "base" =>
          /\ self.train_iterator = None
          /\ self.valid_iterator = None
          /\ model.seen = None
          /\ model.fit_calls = <<>>
          /\ Done("create_train_data_iterator") =>
                (pc = "failed" /\ raised.type = "NotImplementedError")

C5_Witness ==
    /\ cls.get_summary = "base"
    /\ Done("get_summary")
    /\ pc = "failed"
    /\ raised.type = "NotImplementedError"
    /\ self.metrics_object = None

\* every dataset this state holds: the two iterators and a direct call's result
Datasets ==
    {TheValue(d) : d \in {self.train_iterator, self.valid_iterator} \ {None}}
        \cup (IF call # None /\ TheValue(call).method = "tfrecord_pipeline"
                   /\ TheValue(call).ret.raised = NoError
              THEN {TheValue(call).ret.value}
              ELSE {})

\* C6 as first stated: every dataset tfrecord_pipeline returns is the source
\* fed through the five transformations map, shuffle, repeat, batch, prefetch.
C6_FiveTransformations ==
    \A d \in Datasets : OpNames(d) = <<"map", "shuffle", "repeat", "batch", "prefetch">>

\* C6: every dataset tfrecord_pipeline returns is the source fed through map,
\* then shuffle exactly when the shuffle argument is true, then repeat, batch,
\* prefetch, in this order: five transformations for the training pipeline,
\* four for the validation pipeline. A shuffle, when there is one, comes
\* before repeat and batch, so batches are cut from shuffled records.
C6_PipelineOrder ==
    /\ \A d \in Datasets :
          /\ OpNames(d) \in {<<"map", "shuffle", "repeat", "batch", "prefetch">>,
                             <<"map", "repeat", "batch", "prefetch">>}
          /\ \A i \in DOMAIN d.ops :
                d.ops[i].op = "shuffle" =>
                    /\ i < Position(OpNames(d), "repeat")
                    /\ i < Position(OpNames(d), "batch")
    /\ self.train_iterator # None =>
          OpNames(TheValue(self.train_iterator))
              = <<"map", "shuffle", "repeat", "batch", "prefetch">>
    /\ self.valid_iterator # None =>
          OpNames(TheValue(self.valid_iterator)) = <<"map", "repeat", "batch", "prefetch">>
    /\ (call # None /\ TheValue(call).method = "tfrecord_pipeline"
            /\ TheValue(call).ret.raised = NoError) =>
          LET c == TheValue(call)
          IN  /\ OpNames(c.ret.value) =
                     IF c.shuffle
                     THEN <<"map", "shuffle", "repeat", "batch", "prefetch">>
                     ELSE <<"map", "repeat", "batch", "prefetch">>
              \* every batch but the last is full, and the records of one pass
              \* are those of the file
              /\ \A k \in DOMAIN c.seen :
                    /\ Len(c.seen[k]) <= c.batch_size
                    /\ k < Len(c.seen) => Len(c.seen[k]) = c.batch_size
              /\ IsPermutation(Parsed(Passes(Records(c.files), c.epochs)), Flatten(c.seen))
              /\ ~c.shuffle => Flatten(c.seen) = Parsed(Passes(Records(c.files), c.epochs))

\* a batch of two records that were not neighbours in the file
C6_Witness ==
    /\ call # None
    /\ TheValue(call).method = "tfrecord_pipeline"
    /\ TheValue(call).ret.raised = NoError
    /\ TheValue(call).seen # <<>>
    /\ TheValue(call).shuffle
    /\ TheValue(call).files = "train.tfrecord"
    /\ TheValue(call).batch_size = 2
    /\ OpNames(TheValue(call).ret.value) = <<"map", "shuffle", "repeat", "batch", "prefetch">>
    /\ TheValue(call).seen[1] = <<[example |-> 3], [example |-> 1]>>

C8_TrainOrder ==
    LET order == <<"create_train_data_iterator", "build_optimizer", "compile",
                   "callbacks", "fit", "return">>
        steps == IF Done("train")
                 THEN SubSeq(trace, Position(trace, "train") + 1, Len(trace))
                 ELSE <<>>
    IN  /\ IsPrefix(steps, order)
        /\ Len(model.fit_calls) <= 1
        /\ Done("fit") <=> (Len(model.fit_calls) = 1)
        /\ model.compiled # None =>
              /\ Done("compile")
              /\ model.compiled = Some([optimizer |-> TheValue(locals.optimizer),
                                        loss |-> self.loss_object,
                                        metrics |-> self.metrics_object])
              /\ self.loss_object # None
              /\ self.metrics_object # None
        /\ model.fit_calls # <<>> =>
              /\ model.fit_calls[1].compiled
              /\ model.compiled # None
              /\ model.fit_calls[1].arguments =
                     [x |-> self.train_iterator,
                      validation_data |-> self.valid_iterator,
                      epochs |-> FLAGS.epochs,
                      callbacks |-> TheValue(locals.callbacks)]
              /\ self.train_iterator # None
              /\ self.valid_iterator # None
        /\ model.epoch > 0 => model.fit_calls # <<>>
        /\ pc = "returned" =>
              /\ steps = order
              /\ locals.history # None
              /\ locals.returned = locals.history
        /\ (pc = "failed" /\ Done("train")) =>
              /\ locals.returned = None
              /\ steps[Len(steps)] = "create_train_data_iterator" =>
                    (locals.optimizer = None /\ model.compiled = None)
              /\ steps[Len(steps)] = "build_optimizer" =>
                    (model.compiled = None /\ locals.callbacks = None
                        /\ model.fit_calls = <<>>)

C8_Witness ==
    /\ pc = "returned"
    /\ Len(model.fit_calls) = 1
    /\ model.fit_calls[1].arguments.epochs = 2
    /\ locals.returned = Some([epochs_run |-> 2])

\* C9: create_train_data_iterator builds the training pipeline with a shuffle
\* and the validation pipeline without, both with the batch_size flag and
\* both with repeat(1) whatever the epochs flag is; the epochs flag goes to
\* fit only. One iteration yields each record of the file once, the
\* validation records in file order.
C9_OnePass ==
    LET repeat(d) == d.ops[Position(OpNames(d), "repeat")].n
        batch(d) == d.ops[Position(OpNames(d), "batch")].n
    IN  /\ self.train_iterator # None =>
              LET d == TheValue(self.train_iterator)
              IN  /\ \E i \in DOMAIN d.ops : d.ops[i].op = "shuffle"
                  /\ repeat(d) = 1
                  /\ batch(d) = FLAGS.batch_size
                  /\ d.source.files = <<FLAGS.train_data>>
        /\ self.valid_iterator # None =>
              LET d == TheValue(self.valid_iterator)
              IN  /\ \A i \in DOMAIN d.ops : d.ops[i].op # "shuffle"
                  /\ repeat(d) = 1
                  /\ batch(d) = FLAGS.batch_size
                  /\ d.source.files = <<FLAGS.valid_data>>
        /\ model.fit_calls # <<>> => model.fit_calls[1].arguments.epochs = FLAGS.epochs
        /\ model.seen # None =>
              /\ IsPermutation(Parsed(Records(FLAGS.train_data)),
                               Flatten(TheValue(model.seen).train))
              /\ Flatten(TheValue(model.seen).valid) = Parsed(Records(FLAGS.valid_data))

C9_Witness ==
    /\ FLAGS.epochs = 2
    /\ FLAGS.batch_size = 2
    /\ model.epoch = 2
    /\ model.seen # None
    /\ Flatten(TheValue(model.seen).train) = <<[example |-> 2], [example |-> 3], [example |-> 1]>>
    /\ TheValue(self.valid_iterator).ops[2].n = 1

\* C10: lr_schedule returns the input rate at every epoch that is not 3, 6, 9
\* or 12, the in-range epochs 4, 5, 7, 8, 10, 11 too. So with the scheduler
\* callback feeding the current rate back each epoch, over epochs 0, 1, 2, ...
\* the rate is the initial rate for epochs 0-2, 0.05 for 3-5, 0.01 for 6-8,
\* 0.005 for 9-11 and 0.001 from 12 on, whatever the initial rate, and from
\* epoch 3 on it never goes up.
C10_StepFunction ==
    /\ (call # None /\ TheValue(call).method = "lr_schedule") =>
          (TheValue(call).epoch \notin {3, 6, 9, 12} => TheValue(call).ret = TheValue(call).lr)
    /\ (model.fit_calls # <<>>
            /\ HasCallback(model.fit_calls[1].arguments.callbacks, "LearningRateScheduler")) =>
          /\ \A i \in DOMAIN model.lr_log :
                LET epoch == i - 1
                IN  model.lr_log[i] =
                        IF epoch < 3 THEN FLAGS.learning_rate
                        ELSE IF epoch < 6 THEN 50
                        ELSE IF epoch < 9 THEN 10
                        ELSE IF epoch < 12 THEN 5
                        ELSE 1
          /\ \A i, j \in DOMAIN model.lr_log :
                (4 <= i /\ i <= j) => model.lr_log[j] <= model.lr_log[i]
          /\ model.lr_log # <<>> => model.lr = Some(model.lr_log[Len(model.lr_log)])

C10_Witness ==
    /\ FLAGS.lr_schedule
    /\ FLAGS.learning_rate = 5
    /\ Len(model.lr_log) = 14
    /\ model.lr_log[3] = 5
    /\ model.lr_log[4] = 50
    /\ model.lr_log[12] = 5
    /\ model.lr_log[14] = 1

====
